---- MODULE Spec2Model ----
(***************************************************************************)
(* Model of the robomoustachio trust-oracle API: the x402 payment gateway  *)
(* selector and stub middleware (paymentMiddleware.js), and the request     *)
(* access resolver and route handlers of the API server (server.js).       *)
(***************************************************************************)
EXTENDS Integers, Sequences, FiniteSets, TLC

VARIABLES
    options,       \* options object handed to createPaymentMiddleware
    env,           \* process environment (strings; undefined when unset)
    lib,           \* what the external x402 libraries do when loaded/called
    payment,       \* gateway state returned by createPaymentMiddleware
    thrown,        \* message of the error construction threw, or NoError
    realAttempts,  \* invocations of createRealPaymentMiddleware
    phase,         \* "init" | "serving" | "crashed" | "selected" | "resolved"
    resolved,      \* result of resolvePayToAddress
    scoringConfig, \* loadScoringConfigFromEnv(env)
    trustScoreReader, \* trustScoreReader.enabled
    req,           \* the request being handled
    paymentStatus, \* res.locals.paymentStatus of that request
    pc,            \* where the request is: idle, middleware, route, ledger, done
    nextCalls,     \* calls of next() made by the payment middleware
    res,           \* the response sent, status 0 while none was sent
    access,        \* decision taken by the handler before the ledger read
    handler,       \* the handler awaiting the ledger read
    readOutcome,   \* the ledger read: none, returned, reverted or failed
    ledger,        \* parsedRecord: the record the ledger read returned
    clock,         \* Math.floor(Date.now() / 1000) at the time of the report
    pollMs,        \* pollIntervalMs handed to buildRiskReport
    report,        \* the analytics buildRiskReport returned
    verdict,       \* the verdict resolveVerdict returned
    routes,        \* route keys handed to buildPaidRoutes, as character sequences
    probe,         \* method and pathname handed to matchPaidRoute
    matched,       \* index of the rule matchPaidRoute found, 0 for undefined
    script         \* the run of the paid x402 test script

reqVars == <<req, paymentStatus, pc, nextCalls, res, access, handler>>
appVars == <<scoringConfig, trustScoreReader>>
readVars == <<readOutcome, ledger, clock, report>>
pureVars == <<pollMs, verdict, routes, probe, matched, script>>
vars == <<options, env, lib, payment, thrown, realAttempts, phase, resolved,
          scoringConfig, trustScoreReader, req, paymentStatus, pc, nextCalls,
          res, access, handler, readOutcome, ledger, clock, pollMs, report, verdict,
          routes, probe, matched, script>>

----------------------------------------------------------------------------
(* JavaScript values *)

undefined == "<undefined>"
null == "<null>"

\* JS truthiness of a string-or-undefined value
Truthy(v) == v # undefined /\ v # null /\ v # ""

\* JS  a || b
OrElse(a, b) == IF Truthy(a) THEN a ELSE b

\* String.prototype.trim() on the sample strings of the model
trim(s) ==
    CASE s = " ON "   -> "ON"
      [] s = " off "  -> "off"
      [] s = " true"  -> "true"
      [] OTHER        -> s

\* String.prototype.toLowerCase() on the sample strings of the model
toLowerCase(s) ==
    CASE s = "TRUE"  -> "true"
      [] s = "ON"    -> "on"
      [] s = "Yes"   -> "yes"
      [] s = "FALSE" -> "false"
      [] s = "REAL"  -> "real"
      [] s = "Stub"  -> "stub"
      [] s = "AUTO"  -> "auto"
      [] s = "PAID"  -> "paid"
      [] s = "Paid"  -> "paid"
      [] s = "X-Payment"        -> "x-payment"
      [] s = "X-PAYMENT-PROOF"  -> "x-payment-proof"
      [] s = "X402-Payment"     -> "x402-payment"
      [] s = "X-Payment-Status" -> "x-payment-status"
      [] s = "Authorization"    -> "authorization"
      [] s = "Payment"          -> "payment"
      [] s = "Accept"           -> "accept"
      [] s = "Score"            -> "score"
      [] OTHER       -> s

TrimLower(s) == toLowerCase(trim(s))

toBoolean(value, fallback) ==
    IF value = undefined THEN fallback
    ELSE LET normalized == TrimLower(value) IN
         IF normalized \in {"1", "true", "yes", "on"} THEN TRUE
         ELSE IF normalized \in {"0", "false", "no", "off"} THEN FALSE
         ELSE fallback

----------------------------------------------------------------------------
(* Pay-to address resolution *)

AddrDigits == 40

HexDigits == {"0", "1", "2", "3", "4", "5", "6", "7", "8", "9",
              "a", "b", "c", "d", "e", "f", "A", "B", "C", "D", "E", "F"}

\* addresses are sequences of characters; an unset candidate is the empty
\* sequence, which is what String(address || "") makes of undefined.
Rep(c, n) == [i \in 1..n |-> c]

\* variant: the prefix is matched case-insensitively
isValidEvmAddressAnyCase(address) ==
    /\ Len(address) = AddrDigits + 2
    /\ address[1] = "0"
    /\ address[2] \in {"x", "X"}
    /\ \A i \in 3..Len(address) : address[i] \in HexDigits

isValidEvmAddress(address) ==
    /\ Len(address) = AddrDigits + 2
    /\ address[1] = "0"
    /\ address[2] = "x"
    /\ \A i \in 3..Len(address) : address[i] \in HexDigits

MissingPayToMessage == "Missing pay-to address for x402 middleware. Set X402_PAY_TO (or X402_RECEIVER_ADDRESS / DEPLOYER_ADDRESS)."

payToCandidates(opts, e) ==
    << opts.payTo, e.X402_PAY_TO, e.X402_RECEIVER_ADDRESS, e.DEPLOYER_ADDRESS, e.UPDATER_ADDRESS >>

RECURSIVE firstValid(_, _)
firstValid(cands, i) ==
    IF i > Len(cands) THEN [ok |-> FALSE, value |-> <<>>, error |-> MissingPayToMessage]
    ELSE IF isValidEvmAddress(cands[i]) THEN [ok |-> TRUE, value |-> cands[i], error |-> ""]
    ELSE firstValid(cands, i + 1)

resolvePayToAddress(opts, e) == firstValid(payToCandidates(opts, e), 1)

----------------------------------------------------------------------------
(* Route pricing table *)

\* formatUsdPrice lives in registration.js: prices are normalised to a
\* canonical "$"-prefixed string; a canonical string is left as it is.
formatUsdPrice(price) ==
    CASE price = "0.001" -> "$0.001"
      [] price = "0.005" -> "$0.005"
      [] price = "0.01"  -> "$0.01"
      [] price = "0.02"  -> "$0.02"
      [] OTHER           -> price

ScoreRouteKey  == "GET /score/:agentId"
ReportRouteKey == "GET /report/:agentId"

\* key.trim().split(" "): the method and the path of a route key; the path is
\* kept as its "/"-separated segments
parseKey(key) ==
    CASE key = ScoreRouteKey  -> [method |-> "GET", segments |-> <<"score", ":agentId">>]
      [] key = ReportRouteKey -> [method |-> "GET", segments |-> <<"report", ":agentId">>]
      [] key = "post /score/:agentId" -> [method |-> "post", segments |-> <<"score", ":agentId">>]
      [] OTHER -> [method |-> key, segments |-> <<>>]

toUpperCase(m) ==
    CASE m = "get" -> "GET" [] m = "post" -> "POST" [] OTHER -> m

\* routePricing: the entries of the object, in insertion order
buildRoutePricing(e) ==
    << [key |-> ScoreRouteKey,
        config |-> [price |-> formatUsdPrice(OrElse(e.X402_SCORE_PRICE_USDC, "0.001")),
                    network |-> OrElse(e.X402_NETWORK, "base"),
                    description |-> "Agent trust score query"]],
       [key |-> ReportRouteKey,
        config |-> [price |-> formatUsdPrice(OrElse(e.X402_REPORT_PRICE_USDC, "0.005")),
                    network |-> OrElse(e.X402_NETWORK, "base"),
                    description |-> "Detailed agent trust report"]] >>

\* a pattern segment ":name" compiles to [^/]+ ; any other segment is literal
isPlaceholder(seg) == seg \in {":agentId", ":id"}

routeToRegex(segments) ==
    [i \in 1..Len(segments) |->
        IF isPlaceholder(segments[i]) THEN [any |-> TRUE, lit |-> ""]
        ELSE [any |-> FALSE, lit |-> segments[i]]]

buildPaidRoutes(routeConfig) ==
    [i \in 1..Len(routeConfig) |->
        LET parsed == parseKey(routeConfig[i].key) IN
        [key    |-> routeConfig[i].key,
         method |-> toUpperCase(parsed.method),
         regex  |-> routeToRegex(parsed.segments),
         config |-> [routeConfig[i].config EXCEPT !.price = formatUsdPrice(@)]]]

----------------------------------------------------------------------------
(* Payment gateway selector *)

NoError == "<no error>"

NoPayment ==
    [mode |-> "none", usingRealMiddleware |-> FALSE, fallbackFromReal |-> FALSE,
     reason |-> <<>>, middleware |-> "none", paidRoutes |-> <<>>,
     enforceStubPayment |-> FALSE, payToAddress |-> <<>>]

createStubPaymentMiddleware(opts) ==
    [mode |-> "stub",
     usingRealMiddleware |-> FALSE,
     fallbackFromReal |-> FALSE,
     reason |-> <<"Using local x402 stub middleware">>,
     middleware |-> "stub",
     paidRoutes |-> buildPaidRoutes(opts.routeConfig),
     enforceStubPayment |-> toBoolean(opts.enforceStubPayment, FALSE),
     payToAddress |-> <<>>]

\* what loading and calling the external libraries does
LibOutcomes == {"ok", "no_module", "no_export", "no_coinbase", "mw_throws", "mw_not_function"}

\* createRealPaymentMiddleware either returns a state or throws
createRealPaymentMiddleware(opts, e, l) ==
    LET payTo == resolvePayToAddress(opts, e)
        fail(msg) == [threw |-> TRUE, error |-> msg, state |-> NoPayment]
    IN
    IF l = "no_module" THEN fail("Cannot find module 'x402-express'")
    ELSE IF l = "no_export" THEN fail("x402-express.paymentMiddleware export was not found")
    ELSE IF ~payTo.ok THEN fail(payTo.error)
    ELSE IF l = "no_coinbase" THEN fail("Cannot find module '@coinbase/x402'")
    ELSE IF l = "mw_throws" THEN fail("x402-express: invalid facilitator configuration")
    ELSE IF l = "mw_not_function" THEN fail("x402-express did not return a middleware function")
    ELSE [threw |-> FALSE, error |-> NoError,
          state |-> [mode |-> "real",
                     usingRealMiddleware |-> TRUE,
                     fallbackFromReal |-> FALSE,
                     reason |-> <<"Using x402-express middleware with Coinbase facilitator">>,
                     middleware |-> "real",
                     paidRoutes |-> <<>>,
                     enforceStubPayment |-> FALSE,
                     payToAddress |-> payTo.value]]

selectedMode(opts, e) == toLowerCase(OrElse(opts.mode, OrElse(e.X402_MODE, "auto")))

\* variant: real construction is attempted in every mode
shouldTryRealAlways(mode) == TRUE

shouldTryReal(mode) == mode = "real" \/ mode = "auto"

\* variants: the catch block never rethrows / always rethrows
rethrowsNever(mode) == FALSE

rethrowsAlways(mode) == TRUE

\* the catch block rethrows in forced real mode
rethrows(mode) == mode = "real"

createPaymentMiddleware(opts, e, l) ==
    LET mode == selectedMode(opts, e)
        real == createRealPaymentMiddleware(opts, e, l)
    IN
    IF shouldTryReal(mode) THEN
        IF ~real.threw THEN [threw |-> FALSE, error |-> NoError, state |-> real.state, realCalls |-> 1]
        ELSE IF rethrows(mode) THEN [threw |-> TRUE, error |-> real.error, state |-> NoPayment, realCalls |-> 1]
        ELSE [threw |-> FALSE, error |-> NoError, realCalls |-> 1,
              state |-> [createStubPaymentMiddleware(opts) EXCEPT
                            !.fallbackFromReal = TRUE,
                            !.reason = <<"Fell back to stub middleware: ", real.error>>]]
    ELSE [threw |-> FALSE, error |-> NoError, state |-> createStubPaymentMiddleware(opts), realCalls |-> 0]

----------------------------------------------------------------------------
(* Payment headers and the proof predicate *)

\* req.headers is the sequence of the object's [name, value] entries
startsWithXPayment(lower) ==
    lower \in {"x-payment", "x-payment-proof", "x-payment-status", "x-payment-response"}

startsWithX402(lower) == lower \in {"x402-payment", "x402-proof"}

isRelevantHeader(lower) ==
    \/ startsWithXPayment(lower)
    \/ startsWithX402(lower)
    \/ lower = "payment"
    \/ lower = "authorization"

\* relevant[lower] = value is assigned entry by entry: the last entry wins
RECURSIVE lastValue(_, _, _)
lastValue(headers, lower, i) ==
    IF i = 0 THEN undefined
    ELSE IF toLowerCase(headers[i].name) = lower THEN headers[i].value
    ELSE lastValue(headers, lower, i - 1)

extractPaymentHeaders(r) ==
    LET keys == {toLowerCase(r.headers[i].name) : i \in DOMAIN r.headers} IN
    [lower \in {k \in keys : isRelevantHeader(k)} |-> lastValue(r.headers, lower, Len(r.headers))]

\* headers[name] of a JS object: undefined when the key is absent
Lookup(headers, name) == IF name \in DOMAIN headers THEN headers[name] ELSE undefined

\* variant: an authorization header is not proof
hasPaymentProofWithoutAuthorization(headers) ==
    LET status == toLowerCase(OrElse(Lookup(headers, "x-payment-status"), "")) IN
    \/ Truthy(Lookup(headers, "x-payment"))
    \/ Truthy(Lookup(headers, "x-payment-proof"))
    \/ Truthy(Lookup(headers, "x402-payment"))
    \/ Truthy(Lookup(headers, "x402-proof"))
    \/ status = "paid"

hasPaymentProof(headers) ==
    LET status == toLowerCase(OrElse(Lookup(headers, "x-payment-status"), "")) IN
    \/ Truthy(Lookup(headers, "x-payment"))
    \/ Truthy(Lookup(headers, "x-payment-proof"))
    \/ Truthy(Lookup(headers, "x402-payment"))
    \/ Truthy(Lookup(headers, "x402-proof"))
    \/ Truthy(Lookup(headers, "authorization"))
    \/ status = "paid"

----------------------------------------------------------------------------
(* Route matching *)

\* regex.test(pathname): the path is the sequence of its "/"-separated
\* segments ("/score/1/" is <<"score", "1", "">>); [^/]+ needs a non-empty one
regexTest(regex, segments) ==
    /\ Len(regex) = Len(segments)
    /\ \A i \in 1..Len(regex) :
         IF regex[i].any THEN segments[i] # "" ELSE segments[i] = regex[i].lit

routeMatches(route, r) == route.method = toUpperCase(r.method) /\ regexTest(route.regex, r.path)

\* Array.prototype.find: index of the first matching route, 0 for undefined
matchPaidRoute(r, paidRoutes) ==
    IF \E i \in DOMAIN paidRoutes : routeMatches(paidRoutes[i], r)
    THEN CHOOSE i \in DOMAIN paidRoutes :
            /\ routeMatches(paidRoutes[i], r)
            /\ \A j \in 1..(i - 1) : ~routeMatches(paidRoutes[j], r)
    ELSE 0

----------------------------------------------------------------------------
(* Route matching on characters: the regular expression routeToRegex builds *)
(* and its test, with route paths and pathnames as character sequences      *)

\* [A-Za-z0-9_] among the characters of the model
NameChars == {"s", "r", "a", "b", "1", "_"}

\* the class [.*+?^${}()|[\]\\]
RegexSpecials == {".", "*", "+", "?", "^", "$", "{", "}", "(", ")", "|", "[", "]", "\\"}

\* variant: special characters keep their meaning in the pattern
escapeNothing(routePath) ==
    [i \in 1..Len(routePath) |-> [kind |-> "char", ch |-> routePath[i]]]

\* .replace(/[.*+?^${}()|[\]\\]/g, "\\$&"): a special character is escaped
escapeSpecials(routePath) ==
    [i \in 1..Len(routePath) |->
        [kind |-> IF routePath[i] \in RegexSpecials THEN "escaped" ELSE "char",
         ch   |-> routePath[i]]]

\* length of the run of name characters that starts at position i
RECURSIVE nameRun(_, _)
nameRun(tokens, i) ==
    IF i <= Len(tokens) /\ tokens[i].kind = "char" /\ tokens[i].ch \in NameChars
    THEN 1 + nameRun(tokens, i + 1)
    ELSE 0

\* .replace(/:([A-Za-z0-9_]+)/g, "[^/]+"), scanning from position i
RECURSIVE replaceParams(_, _)
replaceParams(tokens, i) ==
    IF i > Len(tokens) THEN <<>>
    ELSE IF tokens[i].kind = "char" /\ tokens[i].ch = ":" /\ nameRun(tokens, i + 1) > 0
    THEN <<[kind |-> "segment", ch |-> ""]>> \o replaceParams(tokens, i + 1 + nameRun(tokens, i + 1))
    ELSE <<tokens[i]>> \o replaceParams(tokens, i + 1)

\* the source of the expression between ^ and $
regexSource(routePath) == replaceParams(escapeSpecials(routePath), 1)

\* one pattern character against one input character
charMatches(token, c) ==
    IF token.kind = "char" /\ token.ch = "." THEN TRUE ELSE token.ch = c

\* backtracking match of tokens[i..] against exactly chars[j..]
RECURSIVE regexExec(_, _, _, _)
regexExec(tokens, i, chars, j) ==
    IF i > Len(tokens) THEN j > Len(chars)
    ELSE IF tokens[i].kind = "segment"
    THEN \E k \in 1..(Len(chars) - j + 1) :
            /\ \A n \in j..(j + k - 1) : chars[n] # "/"
            /\ regexExec(tokens, i + 1, chars, j + k)
    ELSE /\ j <= Len(chars)
         /\ charMatches(tokens[i], chars[j])
         /\ regexExec(tokens, i + 1, chars, j + 1)

\* route.regex.test(pathname)
regexTestPath(tokens, pathname) == regexExec(tokens, 1, pathname, 1)

\* buildPaidRoutes on keys given as a method and a route path
compileRoutes(keys) ==
    [i \in 1..Len(keys) |->
        [method |-> toUpperCase(keys[i].method), regex |-> regexSource(keys[i].routePath)]]

\* paidRoutes.find(...): index of the first matching route, 0 for undefined
findPaidRoute(r, paidRoutes) ==
    LET hit(i) == paidRoutes[i].method = toUpperCase(r.method) /\ regexTestPath(paidRoutes[i].regex, r.path)
    IN IF \E i \in DOMAIN paidRoutes : hit(i)
       THEN CHOOSE i \in DOMAIN paidRoutes : hit(i) /\ \A j \in 1..(i - 1) : ~hit(j)
       ELSE 0

----------------------------------------------------------------------------
(* Stub middleware *)

\* variant: an unmatched request is tagged free over an existing tag
freeTagOverwrites(status) == "free"

\* the tag of a request that matches no paid route
freeTag(status) == IF Truthy(status) THEN status ELSE "free"

\* variant: every matched request is tagged as paid
stubTagAlwaysPaid(paid) == "paid_stub"

stubTag(paid) == IF paid THEN "paid_stub" ELSE "unpaid_stub"

\* variant: enforcement blocks whether or not proof is present
stubBlocksIgnoringProof(paid, enforceStubPayment) == enforceStubPayment

stubBlocks(paid, enforceStubPayment) == ~paid /\ enforceStubPayment

\* variant: the middleware quotes a reason as the handlers do
stubChallengeBodyWithDetails(matchedRoute) ==
    [error   |-> "Payment required (stub middleware)",
     route   |-> matchedRoute.key,
     price   |-> matchedRoute.config.price,
     network |-> OrElse(matchedRoute.config.network, "base"),
     details |-> OrElse(matchedRoute.config.description, "")]

stubChallengeBody(matchedRoute) ==
    [error       |-> "Payment required (stub middleware)",
     route       |-> matchedRoute.key,
     price       |-> matchedRoute.config.price,
     network     |-> OrElse(matchedRoute.config.network, "base"),
     description |-> OrElse(matchedRoute.config.description, "")]

----------------------------------------------------------------------------
(* Request access resolver *)

isDemoRequest(r) == TrimLower(OrElse(r.demo, "")) \in {"1", "true", "yes", "on"}

FullAccess == [allowFullResponse |-> TRUE, allowDemoResponse |-> FALSE]
DemoAccess == [allowFullResponse |-> FALSE, allowDemoResponse |-> TRUE]

PaymentReason == "x402 middleware is running in stub fallback mode. Include an x402 payment header for full data, or add ?demo=true for a limited free response."

\* variant: the challenge also allows the demo payload
ChallengeAlsoDemo ==
    [allowFullResponse |-> FALSE, allowDemoResponse |-> TRUE,
     paymentRequired |-> TRUE, paymentReason |-> PaymentReason]

ChallengeAccess ==
    [allowFullResponse |-> FALSE, allowDemoResponse |-> FALSE,
     paymentRequired |-> TRUE, paymentReason |-> PaymentReason]

shouldRequireHeader(e, pay) == pay.fallbackFromReal \/ toBoolean(e.X402_STUB_ENFORCE, FALSE)

\* variant: the real-mode rule is missing
resolveWithoutRealRule(r, status, e, pay) ==
    LET allowDemoQuery == toBoolean(e.X402_ALLOW_DEMO_QUERY, TRUE)
        paid == hasPaymentProof(extractPaymentHeaders(r))
    IN
    IF paid THEN [access |-> FullAccess, paymentStatus |-> "paid_stub"]
    ELSE IF allowDemoQuery /\ isDemoRequest(r) THEN [access |-> DemoAccess, paymentStatus |-> "demo_free"]
    ELSE IF shouldRequireHeader(e, pay) THEN [access |-> ChallengeAccess, paymentStatus |-> status]
    ELSE [access |-> FullAccess, paymentStatus |-> status]

\* variant: a demo request is given the full tier
resolveDemoAsFull(r, status, e, pay) ==
    LET allowDemoQuery == toBoolean(e.X402_ALLOW_DEMO_QUERY, TRUE)
        paid == hasPaymentProof(extractPaymentHeaders(r))
    IN
    IF pay.usingRealMiddleware THEN [access |-> FullAccess, paymentStatus |-> status]
    ELSE IF paid THEN [access |-> FullAccess, paymentStatus |-> "paid_stub"]
    ELSE IF allowDemoQuery /\ isDemoRequest(r) THEN [access |-> FullAccess, paymentStatus |-> "demo_free"]
    ELSE IF shouldRequireHeader(e, pay) THEN [access |-> ChallengeAccess, paymentStatus |-> status]
    ELSE [access |-> FullAccess, paymentStatus |-> status]

\* variant: a request already tagged demo_free is not given the demo tier again
resolveDemoOnce(r, status, e, pay) ==
    LET allowDemoQuery == toBoolean(e.X402_ALLOW_DEMO_QUERY, TRUE)
        paid == hasPaymentProof(extractPaymentHeaders(r))
    IN
    IF pay.usingRealMiddleware THEN [access |-> FullAccess, paymentStatus |-> status]
    ELSE IF paid THEN [access |-> FullAccess, paymentStatus |-> "paid_stub"]
    ELSE IF allowDemoQuery /\ isDemoRequest(r) /\ status # "demo_free"
         THEN [access |-> DemoAccess, paymentStatus |-> "demo_free"]
    ELSE IF shouldRequireHeader(e, pay) THEN [access |-> ChallengeAccess, paymentStatus |-> status]
    ELSE [access |-> FullAccess, paymentStatus |-> status]

\* the decision and the value of res.locals.paymentStatus after the call
resolvePaidRouteAccess(r, status, e, pay) ==
    LET allowDemoQuery == toBoolean(e.X402_ALLOW_DEMO_QUERY, TRUE)
        paid == hasPaymentProof(extractPaymentHeaders(r))
    IN
    IF pay.usingRealMiddleware THEN [access |-> FullAccess, paymentStatus |-> status]
    ELSE IF paid THEN [access |-> FullAccess, paymentStatus |-> "paid_stub"]
    ELSE IF allowDemoQuery /\ isDemoRequest(r) THEN [access |-> DemoAccess, paymentStatus |-> "demo_free"]
    ELSE IF shouldRequireHeader(e, pay) THEN [access |-> ChallengeAccess, paymentStatus |-> status]
    ELSE [access |-> FullAccess, paymentStatus |-> status]

\* access.paymentRequired of a decision that may lack the property
paymentRequired(decision) == "paymentRequired" \in DOMAIN decision /\ decision.paymentRequired

----------------------------------------------------------------------------
(* Risk / verdict classifier.  Confidence is a float rounded by toFixed(4):  *)
(* it is kept as an integer number of ten-thousandths.                      *)

ConfidenceScale == 10000
BpsScale == 10000
PollIntervalMs == 900000
NotANumber == -1

Min(a, b) == IF a < b THEN a ELSE b
Max(a, b) == IF a > b THEN a ELSE b

\* Math.round(a / b) for b > 0: halves round towards +Infinity
roundDiv(a, b) == (2 * a + b) \div (2 * b)

\* Number(Math.min(1, total / threshold).toFixed(4))
cappedRatio(total, threshold) == Min(ConfidenceScale, roundDiv(total * ConfidenceScale, threshold))

\* variant: the ratio is not capped at 1
reportConfidenceUncapped(total, threshold) ==
    IF threshold = 0 THEN ConfidenceScale ELSE roundDiv(total * ConfidenceScale, threshold)

reportConfidence(total, threshold) ==
    IF threshold = 0 THEN ConfidenceScale ELSE cappedRatio(total, threshold)

\* the /score handler: Number(threshold) || 1
scoreConfidence(total, threshold) ==
    cappedRatio(total, IF threshold # 0 THEN threshold ELSE 1)

\* variant: the rate is truncated instead of rounded
negativeRateTruncated(total, negative) ==
    IF total = 0 THEN 0 ELSE (negative * BpsScale) \div total

\* total === 0n ? 0 : Math.round((Number(negative) / Number(total)) * 10_000)
negativeRate(total, negative) ==
    IF total = 0 THEN 0 ELSE roundDiv(negative * BpsScale, total)

\* variant: a score of exactly 500 counts as low
riskFactorsLowAt500(total, confidenceThreshold, flagged, score) ==
    (IF total < confidenceThreshold THEN <<"low_feedback_volume">> ELSE <<>>)
    \o (IF flagged THEN <<"high_negative_feedback_ratio">> ELSE <<>>)
    \o (IF score <= 500 THEN <<"low_trust_score">> ELSE <<>>)

\* the three pushes onto riskFactors, in their order
riskFactorsOf(total, confidenceThreshold, flagged, score) ==
    (IF total < confidenceThreshold THEN <<"low_feedback_volume">> ELSE <<>>)
    \o (IF flagged THEN <<"high_negative_feedback_ratio">> ELSE <<>>)
    \o (IF score < 500 THEN <<"low_trust_score">> ELSE <<>>)

\* variant: an age of exactly two poll intervals is stale
recentTrendStaleAtLimit(ageSeconds, pollIntervalMs, riskFactors) ==
    IF ageSeconds * 1000 >= pollIntervalMs * 2 THEN "stale"
    ELSE IF Len(riskFactors) = 0 THEN "stable"
    ELSE "caution"

\* ageSeconds > pollIntervalMs / 1000 * 2, compared in milliseconds
recentTrendOf(ageSeconds, pollIntervalMs, riskFactors) ==
    IF ageSeconds * 1000 > pollIntervalMs * 2 THEN "stale"
    ELSE IF Len(riskFactors) = 0 THEN "stable"
    ELSE "caution"

buildRiskReport(parsedRecord, cfg, pollIntervalMs, nowSeconds) ==
    LET total    == parsedRecord.totalFeedback
        positive == parsedRecord.positiveFeedback
        negative == total - positive
        confidenceThreshold == cfg.confidenceThresholdFeedbackCount
        negativeRateBps == negativeRate(total, negative)
        flagged == total > 0 /\ negativeRateBps > cfg.negativeFlagThresholdBps
        riskFactors == riskFactorsOf(total, confidenceThreshold, flagged, parsedRecord.score)
        ageSeconds == Max(0, nowSeconds - parsedRecord.lastUpdated)
        recentTrend == recentTrendOf(ageSeconds, pollIntervalMs, riskFactors)
    IN [confidence      |-> reportConfidence(total, confidenceThreshold),
        negativeRateBps |-> negativeRateBps,
        flagged         |-> flagged,
        riskFactors     |-> riskFactors,
        recentTrend     |-> recentTrend]

\* variant: a score of exactly 700 is trusted
resolveVerdictTrustedAt700(score) ==
    IF score = NotANumber THEN "UNKNOWN"
    ELSE IF score >= 700 THEN "TRUSTED"
    ELSE IF score >= 400 THEN "CAUTION"
    ELSE "DANGEROUS"

resolveVerdict(score) ==
    IF score = NotANumber THEN "UNKNOWN"
    ELSE IF score > 700 THEN "TRUSTED"
    ELSE IF score >= 400 THEN "CAUTION"
    ELSE "DANGEROUS"

resolveConfidenceBand(totalFeedback) ==
    IF totalFeedback >= 50 THEN "high"
    ELSE IF totalFeedback > 0 THEN "low"
    ELSE "none"

----------------------------------------------------------------------------
(* Response bodies of the route handlers *)

buildResponseMeta ==
    [provider |-> "Robomoustachio", service |-> "ERC-8004 Trust Oracle"]

\* routePricing[key]
routeEntry(routePricing, key) ==
    routePricing[CHOOSE i \in DOMAIN routePricing : routePricing[i].key = key]

\* variant: every challenge quotes the /score rule
handlerChallengeBodyScoreRule(routePricing, key, decision) ==
    [error   |-> "Payment required",
     route   |-> key,
     price   |-> routeEntry(routePricing, ScoreRouteKey).config.price,
     network |-> routeEntry(routePricing, ScoreRouteKey).config.network,
     details |-> decision.paymentReason]

handlerChallengeBody(routePricing, key, decision) ==
    [error   |-> "Payment required",
     route   |-> key,
     price   |-> routeEntry(routePricing, key).config.price,
     network |-> routeEntry(routePricing, key).config.network,
     details |-> decision.paymentReason]

\* variant: /health reports the configured mode, not the running one
healthBodyConfiguredMode(pay, e, configured) ==
    [status |-> "ok",
     payment |-> [mode |-> OrElse(e.X402_MODE, "auto"),
                  usingRealMiddleware |-> pay.usingRealMiddleware,
                  fallbackFromReal |-> pay.fallbackFromReal,
                  reason |-> pay.reason],
     trustScore |-> [configured |-> configured]]

\* the body of GET /health (the timestamp is left out)
healthBody(pay, e, configured) ==
    [status |-> "ok",
     payment |-> [mode |-> pay.mode,
                  usingRealMiddleware |-> pay.usingRealMiddleware,
                  fallbackFromReal |-> pay.fallbackFromReal,
                  reason |-> pay.reason],
     trustScore |-> [configured |-> configured]]

notConfiguredBody ==
    [error   |-> "TrustScore contract is not configured",
     details |-> "Set TRUST_SCORE_ADDRESS and API_RPC_URL (or Base RPC env vars) before querying scores."]

\* variant: the demo payload of /score leaks lastUpdated
scoreDemoBodyWithLastUpdated(agentId, rec) ==
    [demo |-> TRUE, agentId |-> agentId, score |-> rec.score,
     verdict |-> resolveVerdict(rec.score),
     confidenceBand |-> resolveConfidenceBand(rec.totalFeedback),
     lastUpdated |-> rec.lastUpdated,
     note |-> "Demo response only. Provide an x402 payment header for the full paid payload.",
     meta |-> buildResponseMeta]

scoreDemoBody(agentId, rec) ==
    [demo |-> TRUE, agentId |-> agentId, score |-> rec.score,
     verdict |-> resolveVerdict(rec.score),
     confidenceBand |-> resolveConfidenceBand(rec.totalFeedback),
     note |-> "Demo response only. Provide an x402 payment header for the full paid payload.",
     meta |-> buildResponseMeta]

scoreFullBody(agentId, rec, cfg) ==
    [agentId |-> agentId, score |-> rec.score,
     confidence |-> scoreConfidence(rec.totalFeedback, cfg.confidenceThresholdFeedbackCount),
     lastUpdated |-> rec.lastUpdated,
     meta |-> buildResponseMeta]

scoreNoHistoryBody(agentId) ==
    [demo |-> TRUE, agentId |-> agentId, score |-> NotANumber,
     verdict |-> "UNKNOWN", confidenceBand |-> "none",
     note |-> "No on-chain history yet. Demo response returned without payment.",
     meta |-> buildResponseMeta]

reportDemoBody(agentId, rec, analytics) ==
    [demo |-> TRUE, agentId |-> agentId, score |-> rec.score,
     verdict |-> resolveVerdict(rec.score),
     confidenceBand |-> resolveConfidenceBand(rec.totalFeedback),
     flagged |-> analytics.flagged,
     note |-> "Demo response only. Provide an x402 payment header for the full paid payload.",
     meta |-> buildResponseMeta]

reportFullBody(agentId, rec, analytics) ==
    [agentId |-> agentId, score |-> rec.score,
     confidence |-> analytics.confidence,
     totalFeedback |-> rec.totalFeedback,
     positiveFeedback |-> rec.positiveFeedback,
     recentTrend |-> analytics.recentTrend,
     flagged |-> analytics.flagged,
     riskFactors |-> analytics.riskFactors,
     negativeRateBps |-> analytics.negativeRateBps,
     lastUpdated |-> rec.lastUpdated,
     meta |-> buildResponseMeta]

reportNoHistoryBody(agentId) ==
    [demo |-> TRUE, agentId |-> agentId, score |-> NotANumber,
     verdict |-> "UNKNOWN", confidenceBand |-> "none", flagged |-> FALSE,
     note |-> "No on-chain history yet. Demo response returned without payment.",
     meta |-> buildResponseMeta]

notFoundBody(what, agentId) == [error |-> what, agentId |-> agentId]

\* variant: a revert is answered not-found whatever the tier
revertResponseAlwaysNotFound(decision, h, agentId) ==
    [status |-> 404,
     body |-> notFoundBody(IF h = "score" THEN "Score not found for agent"
                           ELSE "Report not found for agent", agentId)]

\* the catch block of both handlers on a call exception
revertResponse(decision, h, agentId) ==
    IF decision.allowDemoResponse
    THEN [status |-> 200,
          body |-> IF h = "score" THEN scoreNoHistoryBody(agentId) ELSE reportNoHistoryBody(agentId)]
    ELSE [status |-> 404,
          body |-> notFoundBody(IF h = "score" THEN "Score not found for agent"
                                ELSE "Report not found for agent", agentId)]

\* the tag the full branch of both handlers writes
fullTag(pay) == IF pay.usingRealMiddleware THEN "paid_real" ELSE "paid_stub"

----------------------------------------------------------------------------
(* Sample inputs *)

AddrA       == <<"0", "x">> \o Rep("a", AddrDigits)
AddrB       == <<"0", "x">> \o Rep("B", AddrDigits)
AddrC       == <<"0", "x">> \o Rep("7", AddrDigits)
AddrShort   == <<"0", "x">> \o Rep("a", AddrDigits - 1)
AddrLong    == <<"0", "x">> \o Rep("a", AddrDigits + 1)
AddrNonHex  == <<"0", "x">> \o Rep("a", AddrDigits - 1) \o <<"g">>
AddrBigX    == <<"0", "X">> \o Rep("a", AddrDigits)
AddrNoPfx   == Rep("a", AddrDigits + 2)
AddrUnset   == <<>>

ValidSamples   == {AddrA, AddrB, AddrC}
InvalidSamples == {AddrShort, AddrLong, AddrNonHex, AddrBigX, AddrNoPfx, AddrUnset}

BaseEnv ==
    [X402_MODE |-> undefined, X402_STUB_ENFORCE |-> undefined,
     X402_ALLOW_DEMO_QUERY |-> undefined,
     X402_PAY_TO |-> AddrUnset, X402_RECEIVER_ADDRESS |-> AddrUnset,
     DEPLOYER_ADDRESS |-> AddrUnset, UPDATER_ADDRESS |-> AddrUnset,
     X402_NETWORK |-> undefined,
     X402_SCORE_PRICE_USDC |-> undefined, X402_REPORT_PRICE_USDC |-> undefined,
     TRUST_SCORE_ADDRESS |-> undefined]

NoOptions ==
    [mode |-> undefined, payTo |-> AddrUnset, routeConfig |-> <<>>,
     enforceStubPayment |-> undefined]

NoResolved == [ok |-> FALSE, value |-> <<>>, error |-> "<not called>"]

NoRequest  == [method |-> "", path |-> <<>>, headers |-> <<>>, demo |-> undefined]
NoResponse == [status |-> 0, body |-> <<>>]
NoAccess   == [allowFullResponse |-> FALSE, allowDemoResponse |-> FALSE]
DefaultScoring == [confidenceThresholdFeedbackCount |-> 50, negativeFlagThresholdBps |-> 1000]

NoRecord == [score |-> 0, totalFeedback |-> 0, positiveFeedback |-> 0, lastUpdated |-> 0, exists |-> FALSE]
NoReport == [confidence |-> 0, negativeRateBps |-> 0, flagged |-> FALSE, riskFactors |-> <<>>, recentTrend |-> "insufficient_data"]
NoRoutes == <<>>
NoProbe  == [method |-> "", path |-> <<>>]
NoVerdict == [score |-> NotANumber, verdict |-> ""]

\* the script was not started
NoScript ==
    [privateKey |-> undefined, targetUrl |-> undefined, maxAtomic |-> undefined,
     at |-> "off", preflightStatus |-> 0, paidRequests |-> 0, paidStatus |-> 0,
     paymentResponseHeader |-> null, printed |-> "", exitCode |-> 0]

\* nothing was classified or matched outside a request
NoPure ==
    /\ pollMs = PollIntervalMs /\ verdict = NoVerdict /\ routes = NoRoutes /\ probe = NoProbe /\ matched = 0
    /\ script = NoScript

NoTraffic ==
    /\ req = NoRequest /\ paymentStatus = undefined /\ pc = "idle" /\ nextCalls = 0
    /\ res = NoResponse /\ access = NoAccess /\ handler = "none"
    /\ readOutcome = "none" /\ ledger = NoRecord /\ clock = 0 /\ report = NoReport

----------------------------------------------------------------------------
(* Specification SpecPayTo: resolvePayToAddress on every candidate list *)

InitPayTo ==
    /\ \E c \in [1..5 -> {AddrA, AddrB, AddrShort, AddrLong, AddrNonHex, AddrBigX, AddrUnset}] :
         /\ options = [NoOptions EXCEPT !.payTo = c[1]]
         /\ env = [BaseEnv EXCEPT !.X402_PAY_TO = c[2], !.X402_RECEIVER_ADDRESS = c[3],
                                  !.DEPLOYER_ADDRESS = c[4], !.UPDATER_ADDRESS = c[5]]
    /\ resolved = NoResolved
    /\ phase = "init"
    /\ lib = "ok"
    /\ scoringConfig = DefaultScoring /\ trustScoreReader = FALSE /\ NoTraffic /\ NoPure
    /\ payment = NoPayment /\ thrown = NoError /\ realAttempts = 0

ResolvePayTo ==
    /\ phase = "init"
    /\ resolved' = resolvePayToAddress(options, env)
    /\ phase' = "resolved"
    /\ UNCHANGED <<options, env, lib, payment, thrown, realAttempts, appVars, reqVars, readVars, pureVars>>

NextPayTo == ResolvePayTo

SpecPayTo == InitPayTo /\ [][NextPayTo]_vars

----------------------------------------------------------------------------
(* Specification SpecSelect: createPaymentMiddleware on every configuration *)

InitSelect ==
    /\ \E m \in {undefined, "auto", "real", "stub", "REAL", "Stub", "bogus"},
          pt \in {AddrUnset, AddrA, AddrLong},
          esp \in {undefined, "true"} :
         options = [mode |-> m, payTo |-> pt, routeConfig |-> buildRoutePricing(BaseEnv),
                    enforceStubPayment |-> esp]
    /\ \E em \in {undefined, "real", "stub"},
          a1 \in {AddrUnset, AddrB, AddrNoPfx},
          a2 \in {AddrUnset, AddrC} :
         env = [BaseEnv EXCEPT !.X402_MODE = em, !.X402_PAY_TO = a1, !.DEPLOYER_ADDRESS = a2]
    /\ lib \in LibOutcomes
    /\ payment = NoPayment /\ thrown = NoError /\ realAttempts = 0
    /\ phase = "init"
    /\ resolved = NoResolved
    /\ scoringConfig = DefaultScoring /\ trustScoreReader = FALSE /\ NoTraffic /\ NoPure

SelectGateway ==
    /\ phase = "init"
    /\ LET r == createPaymentMiddleware(options, env, lib) IN
         /\ payment' = r.state
         /\ thrown' = r.error
         /\ realAttempts' = r.realCalls
         /\ phase' = IF r.threw THEN "crashed" ELSE "selected"
    /\ UNCHANGED <<options, env, lib, resolved, appVars, reqVars, readVars, pureVars>>

NextSelect == SelectGateway

SpecSelect == InitSelect /\ [][NextSelect]_vars

----------------------------------------------------------------------------
(* Specification SpecMatch: matchPaidRoute on route tables and pathnames *)

MaxPathLen == 5

PathAlphabet == {"/", "s", "1", "."}

\* req.path: it starts with a slash
PathnameSamples ==
    UNION {{<<"/">> \o t : t \in [1..n -> PathAlphabet]} : n \in 0..(MaxPathLen - 1)}

RouteKeySamples ==
    {[method |-> "GET",  routePath |-> <<"/", "s", "/", ":", "a">>],
     [method |-> "get",  routePath |-> <<"/", "s", "/", "1">>],
     [method |-> "GET",  routePath |-> <<"/", ":", "a", "/", ":", "b", "_">>],
     [method |-> "GET",  routePath |-> <<"/", "s", ".", "1">>],
     [method |-> "POST", routePath |-> <<"/", "s", "/", ":", "a">>],
     [method |-> "GET",  routePath |-> <<"/", "s">>]}

RouteTableSamples ==
    {<<k>> : k \in RouteKeySamples} \cup {<<k1, k2>> : k1 \in RouteKeySamples, k2 \in RouteKeySamples}

InitMatch ==
    /\ routes \in RouteTableSamples
    /\ probe \in [method : {"GET", "get", "POST"}, path : PathnameSamples]
    /\ matched = 0
    /\ pollMs = PollIntervalMs /\ verdict = NoVerdict /\ script = NoScript
    /\ phase = "init"
    /\ options = NoOptions /\ env = BaseEnv /\ lib = "ok"
    /\ payment = NoPayment /\ thrown = NoError /\ realAttempts = 0
    /\ resolved = NoResolved
    /\ scoringConfig = DefaultScoring /\ trustScoreReader = FALSE /\ NoTraffic

MatchRoute ==
    /\ phase = "init"
    /\ matched' = findPaidRoute(probe, compileRoutes(routes))
    /\ phase' = "matched"
    /\ UNCHANGED <<options, env, lib, payment, thrown, realAttempts, resolved, appVars,
                   reqVars, readVars, pollMs, verdict, routes, probe, script>>

NextMatch == MatchRoute

SpecMatch == InitMatch /\ [][NextMatch]_vars

----------------------------------------------------------------------------
(* Specification SpecRisk: buildRiskReport and resolveVerdict on records *)

ScoreSamples    == {0, 399, 400, 499, 500, 700, 701, 950}
TotalSamples    == {0, 1, 3, 32, 50, 100}
PositiveSamples == {0, 1, 2, 31, 50, 101}
UpdatedSamples  == {0, 5000, 9000}
ClockSamples    == {5000, 5003, 5004, 6800, 6801}
ThresholdSamples     == {0, 1, 3, 32, 50}
FlagThresholdSamples == {0, 1000, 10000}
PollSamples     == {PollIntervalMs, 1500}

InitRisk ==
    /\ ledger \in [score : ScoreSamples, totalFeedback : TotalSamples,
                   positiveFeedback : PositiveSamples, lastUpdated : UpdatedSamples,
                   exists : {TRUE}]
    /\ scoringConfig \in [confidenceThresholdFeedbackCount : ThresholdSamples,
                          negativeFlagThresholdBps : FlagThresholdSamples]
    /\ pollMs \in PollSamples
    /\ clock \in ClockSamples
    /\ report = NoReport
    /\ readOutcome = "returned"
    /\ verdict = NoVerdict
    /\ routes = NoRoutes /\ probe = NoProbe /\ matched = 0 /\ script = NoScript
    /\ phase = "init"
    /\ options = NoOptions /\ env = BaseEnv /\ lib = "ok"
    /\ payment = NoPayment /\ thrown = NoError /\ realAttempts = 0
    /\ resolved = NoResolved
    /\ trustScoreReader = FALSE
    /\ req = NoRequest /\ paymentStatus = undefined /\ pc = "idle" /\ nextCalls = 0
    /\ res = NoResponse /\ access = NoAccess /\ handler = "none"

AssessRisk ==
    /\ phase = "init"
    /\ report' = buildRiskReport(ledger, scoringConfig, pollMs, clock)
    /\ phase' = "assessed"
    /\ UNCHANGED <<options, env, lib, payment, thrown, realAttempts, resolved, appVars,
                   reqVars, readOutcome, ledger, clock, pollMs, verdict, routes, probe, matched, script>>

\* Number(parsedRecord.score), or a score that is not a number
ResolveVerdict ==
    /\ phase = "assessed"
    /\ \E score \in {ledger.score, NotANumber} :
         verdict' = [score |-> score, verdict |-> resolveVerdict(score)]
    /\ phase' = "classified"
    /\ UNCHANGED <<options, env, lib, payment, thrown, realAttempts, resolved, appVars,
                   reqVars, readVars, pollMs, routes, probe, matched, script>>

NextRisk == AssessRisk \/ ResolveVerdict

SpecRisk == InitRisk /\ [][NextRisk]_vars

----------------------------------------------------------------------------
(* The paid x402 test script *)

DefaultTargetUrl == "https://robomoustach.io/score/1"

\* new URL(value), null when it throws
toUrl(value) ==
    IF value \in {DefaultTargetUrl, "http://localhost:3000/report/2"} THEN value ELSE null

\* trimmed, with the 0x prefix added when it is missing
normalizePrivateKey(value) ==
    CASE value = undefined -> ""
      [] value = "  "      -> ""
      [] value = "ab12"    -> "0xab12"
      [] OTHER             -> value

\* /^\d+$/ on the trimmed value
isDigits(raw) == raw \in {"20000", "5000", "0"}

\* the errors main throws before any request, "" when there is none
configError(privateKey, targetUrl, maxAtomic) ==
    IF Truthy(maxAtomic) /\ ~isDigits(maxAtomic) THEN "Invalid X402_MAX_PAYMENT_ATOMIC value"
    ELSE IF normalizePrivateKey(privateKey) \in {"", "0x"} THEN "Missing X402_TEST_PRIVATE_KEY"
    ELSE IF toUrl(OrElse(targetUrl, DefaultTargetUrl)) = null THEN "Invalid X402_TEST_URL"
    ELSE ""

\* variant: every preflight answer lets the script pay
preflightAcceptsAny(status) == TRUE

\* plainResponse.status !== 402 throws
preflightAccepts(status) == status = 402

\* Response.ok
responseOk(status) == status >= 200 /\ status <= 299

\* decodeXPaymentResponse: a header that is not base64 JSON makes it throw
decodes(header) == header = "eyJzdWNjZXNzIjp0cnVlfQ=="

\* main().catch: FAIL is printed and the process exits with 1
scriptFails(run, message) ==
    [run EXCEPT !.at = "exited", !.printed = "FAIL: " \o message, !.exitCode = 1]

----------------------------------------------------------------------------
(* Specification SpecScript: one run of the paid x402 test script *)

PrivateKeySamples == {undefined, "  ", "0x", "ab12", "0xab12"}
TargetUrlSamples  == {undefined, "http://localhost:3000/report/2", "not a url"}
MaxAtomicSamples  == {undefined, "5000", "12x"}
PreflightSamples  == {200, 401, 402, 404, 500, 503}
PaidStatusSamples == {200, 204, 402, 500}
PaymentResponseSamples == {null, "", "garbage", "eyJzdWNjZXNzIjp0cnVlfQ=="}

InitScript ==
    /\ \E k \in PrivateKeySamples, u \in TargetUrlSamples, m \in MaxAtomicSamples :
         script = [NoScript EXCEPT !.privateKey = k, !.targetUrl = u, !.maxAtomic = m,
                                   !.at = "start"]
    /\ pollMs = PollIntervalMs /\ verdict = NoVerdict
    /\ routes = NoRoutes /\ probe = NoProbe /\ matched = 0
    /\ phase = "init"
    /\ options = NoOptions /\ env = BaseEnv /\ lib = "ok"
    /\ payment = NoPayment /\ thrown = NoError /\ realAttempts = 0
    /\ resolved = NoResolved
    /\ scoringConfig = DefaultScoring /\ trustScoreReader = FALSE /\ NoTraffic

scriptFrame ==
    <<options, env, lib, payment, thrown, realAttempts, phase, resolved, appVars,
      reqVars, readVars, pollMs, verdict, routes, probe, matched>>

\* main up to the preflight request
ReadConfiguration ==
    /\ script.at = "start"
    /\ LET message == configError(script.privateKey, script.targetUrl, script.maxAtomic) IN
         script' = IF message = "" THEN [script EXCEPT !.at = "preflight"]
                   ELSE scriptFails(script, message)
    /\ UNCHANGED scriptFrame

\* the unauthenticated request is answered
PreflightAnswered ==
    /\ script.at = "preflight"
    /\ \E status \in PreflightSamples :
         LET seen == [script EXCEPT !.preflightStatus = status] IN
         script' = IF preflightAccepts(status) THEN [seen EXCEPT !.at = "paying"]
                   ELSE scriptFails(seen, "Expected unauthenticated preflight status 402")
    /\ UNCHANGED scriptFrame

\* fetch rejects: no answer at all
PreflightRejects ==
    /\ script.at = "preflight"
    /\ script' = scriptFails(script, "fetch failed")
    /\ UNCHANGED scriptFrame

\* the request made through wrapFetchWithPayment is answered
PaidAnswered ==
    /\ script.at = "paying"
    /\ \E status \in PaidStatusSamples, header \in PaymentResponseSamples :
         LET seen == [script EXCEPT !.paidRequests = @ + 1, !.paidStatus = status,
                                    !.paymentResponseHeader = header]
         IN script' =
              IF ~responseOk(status) THEN scriptFails(seen, "Paid request failed")
              ELSE IF ~Truthy(header)
                   THEN scriptFails(seen, "Paid request returned 200 but missing X-PAYMENT-RESPONSE header")
              ELSE IF ~decodes(header) THEN scriptFails(seen, "decodeXPaymentResponse failed")
              ELSE [seen EXCEPT !.at = "exited",
                                !.printed = "PASS: paid x402 flow completed successfully."]
    /\ UNCHANGED scriptFrame

\* the paying fetch rejects (payment refused, amount above the maximum)
PaidRejects ==
    /\ script.at = "paying"
    /\ script' = scriptFails([script EXCEPT !.paidRequests = @ + 1], "payment failed")
    /\ UNCHANGED scriptFrame

NextScript ==
    \/ ReadConfiguration
    \/ PreflightAnswered
    \/ PreflightRejects
    \/ PaidAnswered
    \/ PaidRejects

SpecScript == InitScript /\ [][NextScript]_vars

----------------------------------------------------------------------------
(* Express routing of the application's routes *)

\* Express matches paths case-insensitively and lets one trailing slash pass
dropTrailingSlash(path) ==
    IF Len(path) > 1 /\ path[Len(path)] = "" THEN SubSeq(path, 1, Len(path) - 1) ELSE path

expressRoute(r) ==
    LET path == dropTrailingSlash(r.path) IN
    IF r.method # "GET" THEN "none"
    ELSE IF Len(path) = 1 /\ toLowerCase(path[1]) = "health" THEN "health"
    ELSE IF Len(path) = 1 /\ toLowerCase(path[1]) = "discover" THEN "discover"
    ELSE IF Len(path) = 2 /\ toLowerCase(path[1]) = "score" /\ path[2] # "" THEN "score"
    ELSE IF Len(path) = 2 /\ toLowerCase(path[1]) = "report" /\ path[2] # "" THEN "report"
    ELSE "none"

\* validateAgentIdParam (validation.js): a decimal agent id passes
validAgentId(segment) == segment \in {"1", "2", "42"}

agentIdOf(r) == dropTrailingSlash(r.path)[2]

routeKeyOf(h) == IF h = "score" THEN ScoreRouteKey ELSE ReportRouteKey

----------------------------------------------------------------------------
(* Specification Spec: the application, from createApp to the responses *)

HeaderSamples ==
    {<<>>}
    \cup {<<[name |-> n, value |-> v]>> :
            n \in {"x-payment", "X-PAYMENT-PROOF", "X402-Payment", "x402-proof",
                   "Authorization", "X-Payment-Status", "Accept", "Payment"},
            v \in {"tok", "PAID"}}
    \cup {<<[name |-> "x-payment", value |-> ""]>>,
          <<[name |-> "Accept", value |-> "tok"], [name |-> "x402-proof", value |-> "tok"]>>}

DemoSamples == {undefined, "Yes", "0"}

PathSamples ==
    {<<"score", "1">>, <<"report", "42">>, <<"health">>, <<"discover">>,
     <<"score", "1", "">>, <<"report", "abc">>}

RequestSamples ==
    {[method |-> "GET", path |-> p, headers |-> h, demo |-> d] :
        p \in PathSamples, h \in HeaderSamples, d \in DemoSamples}
    \cup {[method |-> "POST", path |-> <<"score", "1">>, headers |-> h, demo |-> undefined] :
        h \in {<<>>, <<[name |-> "x-payment", value |-> "tok"]>>}}

LedgerRecords ==
    {[score |-> 950, totalFeedback |-> 100, positiveFeedback |-> 98, lastUpdated |-> 5000, exists |-> TRUE],
     [score |-> 700, totalFeedback |-> 10,  positiveFeedback |-> 2,  lastUpdated |-> 5000, exists |-> TRUE],
     [score |-> 0,   totalFeedback |-> 0,   positiveFeedback |-> 0,  lastUpdated |-> 0,    exists |-> FALSE]}

NowSamples == {5000, 6801}

Init ==
    /\ \E m \in {undefined, "stub", "real"},
          pt \in {AddrUnset, AddrA},
          enf \in {undefined, "TRUE"},
          dq \in {undefined, "false"},
          ts \in {undefined, "0xTrustScore"} :
         env = [BaseEnv EXCEPT !.X402_MODE = m, !.X402_PAY_TO = pt,
                               !.X402_STUB_ENFORCE = enf, !.X402_ALLOW_DEMO_QUERY = dq,
                               !.TRUST_SCORE_ADDRESS = ts]
    /\ lib = "ok"
    /\ options = NoOptions
    /\ payment = NoPayment /\ thrown = NoError /\ realAttempts = 0
    /\ phase = "init"
    /\ resolved = NoResolved
    /\ scoringConfig \in {DefaultScoring, [DefaultScoring EXCEPT !.confidenceThresholdFeedbackCount = 0]}
    /\ trustScoreReader = FALSE
    /\ NoTraffic
    /\ NoPure

\* the options createApp hands to createPaymentMiddleware
appOptions(e) ==
    [mode |-> OrElse(e.X402_MODE, "auto"),
     payTo |-> AddrUnset,
     routeConfig |-> buildRoutePricing(e),
     enforceStubPayment |-> OrElse(e.X402_STUB_ENFORCE, "false")]

CreateApp ==
    /\ phase = "init"
    /\ options' = appOptions(env)
    /\ trustScoreReader' = Truthy(env.TRUST_SCORE_ADDRESS)
    /\ LET r == createPaymentMiddleware(appOptions(env), env, lib) IN
         /\ payment' = r.state
         /\ thrown' = r.error
         /\ realAttempts' = r.realCalls
         /\ phase' = IF r.threw THEN "crashed" ELSE "serving"
    /\ UNCHANGED <<env, lib, resolved, scoringConfig, reqVars, readVars, pureVars>>

Arrive ==
    /\ phase = "serving"
    /\ pc = "idle"
    /\ req' \in RequestSamples
    /\ paymentStatus' \in {undefined, "logged"}
    /\ pc' = "middleware"
    /\ nextCalls' = 0
    /\ res' = NoResponse
    /\ access' = NoAccess
    /\ handler' = "none"
    /\ UNCHANGED <<options, env, lib, payment, thrown, realAttempts, phase, resolved, appVars, readVars, pureVars>>

gateVars == <<options, env, lib, payment, thrown, realAttempts, phase, resolved, appVars, pureVars>>

StubMiddleware ==
    /\ pc = "middleware"
    /\ payment.middleware = "stub"
    /\ LET m    == matchPaidRoute(req, payment.paidRoutes)
           paid == hasPaymentProof(extractPaymentHeaders(req))
       IN
       IF m = 0 THEN
           /\ paymentStatus' = freeTag(paymentStatus)
           /\ nextCalls' = nextCalls + 1
           /\ pc' = "route"
           /\ res' = res
       ELSE
           /\ paymentStatus' = stubTag(paid)
           /\ IF stubBlocks(paid, payment.enforceStubPayment)
              THEN /\ res' = [status |-> 402, body |-> stubChallengeBody(payment.paidRoutes[m])]
                   /\ pc' = "done"
                   /\ nextCalls' = nextCalls
              ELSE /\ res' = res
                   /\ pc' = "route"
                   /\ nextCalls' = nextCalls + 1
    /\ UNCHANGED <<req, access, handler>>
    /\ UNCHANGED <<gateVars, readVars>>

\* x402-express gates the paid routes itself: it either settles the payment
\* and calls next, or answers with its own challenge
RealMiddlewarePass ==
    /\ pc = "middleware"
    /\ payment.middleware = "real"
    /\ nextCalls' = nextCalls + 1
    /\ pc' = "route"
    /\ UNCHANGED <<req, paymentStatus, res, access, handler>>
    /\ UNCHANGED <<gateVars, readVars>>

RealMiddlewareChallenge ==
    /\ pc = "middleware"
    /\ payment.middleware = "real"
    /\ matchPaidRoute(req, buildPaidRoutes(options.routeConfig)) # 0
    /\ res' = [status |-> 402, body |-> [error |-> "X-PAYMENT header is required", x402Version |-> 1]]
    /\ pc' = "done"
    /\ UNCHANGED <<req, paymentStatus, nextCalls, access, handler>>
    /\ UNCHANGED <<gateVars, readVars>>

Health ==
    /\ pc = "route"
    /\ expressRoute(req) = "health"
    /\ res' = [status |-> 200, body |-> healthBody(payment, env, trustScoreReader)]
    /\ pc' = "done"
    /\ UNCHANGED <<req, paymentStatus, nextCalls, access, handler>>
    /\ UNCHANGED <<gateVars, readVars>>

Discover ==
    /\ pc = "route"
    /\ expressRoute(req) = "discover"
    /\ res' = [status |-> 200, body |-> [name |-> "Robomoustachio"]]
    /\ pc' = "done"
    /\ UNCHANGED <<req, paymentStatus, nextCalls, access, handler>>
    /\ UNCHANGED <<gateVars, readVars>>

\* no route of the application matches: Express answers 404
Unrouted ==
    /\ pc = "route"
    /\ expressRoute(req) = "none"
    /\ res' = [status |-> 404, body |-> <<>>]
    /\ pc' = "done"
    /\ UNCHANGED <<req, paymentStatus, nextCalls, access, handler>>
    /\ UNCHANGED <<gateVars, readVars>>

RejectAgentId ==
    /\ pc = "route"
    /\ expressRoute(req) \in {"score", "report"}
    /\ ~validAgentId(agentIdOf(req))
    /\ res' = [status |-> 400, body |-> [error |-> "Invalid agentId"]]
    /\ pc' = "done"
    /\ UNCHANGED <<req, paymentStatus, nextCalls, access, handler>>
    /\ UNCHANGED <<gateVars, readVars>>

\* variant: the reader is checked before the decision
beforeReadReaderFirst(decision, enabled) ==
    IF ~enabled THEN "unconfigured"
    ELSE IF paymentRequired(decision) THEN "challenge"
    ELSE "read"

\* what a handler does with the decision before it reads the ledger
beforeRead(decision, enabled) ==
    IF paymentRequired(decision) THEN "challenge"
    ELSE IF ~enabled THEN "unconfigured"
    ELSE "read"

\* the handlers of /score/:agentId and /report/:agentId up to the ledger read
PaidHandler(h) ==
    /\ expressRoute(req) = h
    /\ validAgentId(agentIdOf(req))
    /\ LET r == resolvePaidRouteAccess(req, paymentStatus, env, payment) IN
         /\ paymentStatus' = r.paymentStatus
         /\ access' = r.access
         /\ IF beforeRead(r.access, trustScoreReader) = "challenge"
            THEN /\ res' = [status |-> 402,
                            body |-> handlerChallengeBody(buildRoutePricing(env), routeKeyOf(h), r.access)]
                 /\ pc' = "done"
                 /\ handler' = handler
            ELSE IF beforeRead(r.access, trustScoreReader) = "unconfigured"
            THEN /\ res' = [status |-> 503, body |-> notConfiguredBody]
                 /\ pc' = "done"
                 /\ handler' = handler
            ELSE /\ res' = res
                 /\ pc' = "ledger"
                 /\ handler' = h
    /\ UNCHANGED <<req, nextCalls>>
    /\ UNCHANGED <<gateVars, readVars>>

ScoreHandler ==
    /\ pc = "route"
    /\ PaidHandler("score")

ReportHandler ==
    /\ pc = "route"
    /\ PaidHandler("report")

ScoreLedgerReturns ==
    /\ pc = "ledger"
    /\ handler = "score"
    /\ \E parsedRecord \in LedgerRecords :
         /\ readOutcome' = "returned"
         /\ ledger' = parsedRecord
         /\ IF access.allowDemoResponse
            THEN /\ res' = [status |-> 200, body |-> scoreDemoBody(agentIdOf(req), parsedRecord)]
                 /\ paymentStatus' = paymentStatus
            ELSE /\ paymentStatus' = fullTag(payment)
                 /\ res' = [status |-> 200, body |-> scoreFullBody(agentIdOf(req), parsedRecord, scoringConfig)]
    /\ pc' = "done"
    /\ UNCHANGED <<req, nextCalls, access, handler, clock, report>>
    /\ UNCHANGED gateVars

ReportLedgerReturns ==
    /\ pc = "ledger"
    /\ handler = "report"
    /\ \E parsedRecord \in LedgerRecords, nowSeconds \in NowSamples :
         LET analytics == buildRiskReport(parsedRecord, scoringConfig, pollMs, nowSeconds) IN
         /\ readOutcome' = "returned"
         /\ ledger' = parsedRecord
         /\ clock' = nowSeconds
         /\ report' = analytics
         /\ IF access.allowDemoResponse
            THEN /\ res' = [status |-> 200, body |-> reportDemoBody(agentIdOf(req), parsedRecord, analytics)]
                 /\ paymentStatus' = paymentStatus
            ELSE /\ paymentStatus' = fullTag(payment)
                 /\ res' = [status |-> 200, body |-> reportFullBody(agentIdOf(req), parsedRecord, analytics)]
    /\ pc' = "done"
    /\ UNCHANGED <<req, nextCalls, access, handler>>
    /\ UNCHANGED gateVars

\* the contract call reverts (isCallException): the catch block resolves
\* the access again
LedgerReverts ==
    /\ pc = "ledger"
    /\ LET r == resolvePaidRouteAccess(req, paymentStatus, env, payment) IN
         /\ paymentStatus' = r.paymentStatus
         /\ res' = revertResponse(r.access, handler, agentIdOf(req))
    /\ pc' = "done"
    /\ UNCHANGED <<req, nextCalls, access, handler>>
    /\ UNCHANGED <<gateVars, ledger, clock, report>>
    /\ readOutcome' = "reverted"

\* any other failure of the read goes to the error handler through next(error)
LedgerFails ==
    /\ pc = "ledger"
    /\ res' = [status |-> 500, body |-> [error |-> "Internal server error", details |-> "network error"]]
    /\ pc' = "done"
    /\ UNCHANGED <<req, paymentStatus, nextCalls, access, handler>>
    /\ UNCHANGED <<gateVars, ledger, clock, report>>
    /\ readOutcome' = "failed"

\* the response has been sent: the request and its res.locals are gone
Finish ==
    /\ pc = "done"
    /\ req' = NoRequest
    /\ paymentStatus' = undefined
    /\ pc' = "idle"
    /\ nextCalls' = 0
    /\ res' = NoResponse
    /\ access' = NoAccess
    /\ handler' = "none"
    /\ readOutcome' = "none"
    /\ ledger' = NoRecord
    /\ clock' = 0
    /\ report' = NoReport
    /\ UNCHANGED gateVars

Next ==
    \/ CreateApp
    \/ Arrive
    \/ StubMiddleware
    \/ RealMiddlewarePass
    \/ RealMiddlewareChallenge
    \/ Health
    \/ Discover
    \/ Unrouted
    \/ RejectAgentId
    \/ ScoreHandler
    \/ ReportHandler
    \/ ScoreLedgerReturns
    \/ ReportLedgerReturns
    \/ LedgerReverts
    \/ LedgerFails
    \/ Finish

Spec == Init /\ [][Next]_vars

----------------------------------------------------------------------------
(* Vocabulary of the properties, stated on the request itself *)

ProofHeaderNames == {"x-payment", "x-payment-proof", "x402-payment", "x402-proof", "authorization"}

\* the request carries a recognized payment-proof header, whatever its value
CarriesProofHeader(r) ==
    \E i \in DOMAIN r.headers :
        \/ toLowerCase(r.headers[i].name) \in ProofHeaderNames
        \/ /\ toLowerCase(r.headers[i].name) = "x-payment-status"
           /\ r.headers[i].value \in {"paid", "PAID", "Paid"}

\* ... with a non-empty value
CarriesProof(r) ==
    \E i \in DOMAIN r.headers :
        \/ /\ toLowerCase(r.headers[i].name) \in ProofHeaderNames
           /\ r.headers[i].value # ""
        \/ /\ toLowerCase(r.headers[i].name) = "x-payment-status"
           /\ r.headers[i].value \in {"paid", "PAID", "Paid"}

\* GET /score/:agentId or GET /report/:agentId
PaidRouteRequest(r) ==
    /\ r.method = "GET"
    /\ Len(r.path) = 2
    /\ r.path[1] \in {"score", "report"}
    /\ r.path[2] # ""

RouteKeyOfRequest(r) == IF r.path[1] = "score" THEN ScoreRouteKey ELSE ReportRouteKey
OtherRouteKey(r)     == IF r.path[1] = "score" THEN ReportRouteKey ELSE ScoreRouteKey

DemoOptIn(r) == r.demo \in {"1", "true", "yes", "on", "Yes", " ON "}

DemoAllowed == env.X402_ALLOW_DEMO_QUERY \in {undefined, "true", "1", "yes", "on"}

EnforceOverride == env.X402_STUB_ENFORCE \in {"true", "TRUE", "1", "yes", "on"}

StubGateway == phase = "serving" /\ payment.mode = "stub" /\ ~payment.usingRealMiddleware

Resolved == access # NoAccess

----------------------------------------------------------------------------
(* Properties *)

\* C1: whenever the gateway state has usingRealMiddleware = true, the decision
\* resolvePaidRouteAccess returns is the full tier (allowFullResponse, not
\* allowDemoResponse, no paymentRequired), whatever the headers, the demo flag,
\* the enforcement override and the demo-allowed setting are; a challenge is
\* returned only when usingRealMiddleware is false.
C1_RealModeResolvesFull ==
    /\ (Resolved /\ payment.usingRealMiddleware) =>
          /\ access.allowFullResponse
          /\ ~access.allowDemoResponse
          /\ ~paymentRequired(access)
    /\ (Resolved /\ paymentRequired(access)) => ~payment.usingRealMiddleware

C1_Witness ==
    /\ payment.usingRealMiddleware
    /\ access = FullAccess
    /\ DemoOptIn(req)
    /\ EnforceOverride
    /\ ~CarriesProofHeader(req)

\* C2 (as stated): under a stub gateway a paid-route request that carries any
\* recognized payment-proof header passes the stub middleware and resolves to
\* the full tier: no 402, no demo payload.
C2_AnyProofHeaderResolvesFull ==
    (StubGateway /\ PaidRouteRequest(req) /\ CarriesProofHeader(req)) =>
        /\ res.status # 402
        /\ (pc \in {"route", "ledger", "done"} => nextCalls = 1)
        /\ (Resolved => access = FullAccess)
        /\ (res.status = 200 => "demo" \notin DOMAIN res.body)

\* C2 (amended): under a stub gateway a paid-route request that carries a
\* recognized payment-proof header with a non-empty value passes the stub
\* middleware (next is called once, no response) and is resolved to the full
\* tier; it gets neither a 402 nor the demo payload, also with the demo flag.
C2_ProofResolvesFull ==
    (StubGateway /\ PaidRouteRequest(req) /\ CarriesProof(req)) =>
        /\ res.status # 402
        /\ (pc \in {"route", "ledger", "done"} => nextCalls = 1)
        /\ (Resolved => access = FullAccess)
        /\ ((pc \in {"ledger", "done"} /\ validAgentId(req.path[2])) => access = FullAccess)
        /\ (res.status = 200 => "demo" \notin DOMAIN res.body)

C2_Witness ==
    /\ StubGateway
    /\ EnforceOverride
    /\ PaidRouteRequest(req)
    /\ CarriesProof(req)
    /\ DemoOptIn(req)
    /\ pc = "done"
    /\ res.status = 200
    /\ access = FullAccess

C4_DemoOptInServedDemo ==
    (/\ StubGateway
     /\ PaidRouteRequest(req)
     /\ validAgentId(req.path[2])
     /\ ~CarriesProof(req)
     /\ DemoOptIn(req)
     /\ DemoAllowed
     /\ pc = "done") =>
        /\ res.status # 402
        /\ paymentStatus = "demo_free"
        /\ (res.status = 200 => ("demo" \in DOMAIN res.body /\ res.body.demo))

\* C5: a demo flag never unlocks full: if the request without the demo flag
\* (same gateway, headers and configuration) does not resolve to the full tier,
\* the request with the flag does not resolve to the full tier either.
C5_DemoFlagNeverUnlocksFull ==
    (Resolved /\ req.demo # undefined) =>
        LET plain == resolvePaidRouteAccess([req EXCEPT !.demo = undefined],
                                            paymentStatus, env, payment).access
        IN ~plain.allowFullResponse => ~access.allowFullResponse

C5_Witness ==
    /\ Resolved
    /\ DemoOptIn(req)
    /\ access = DemoAccess
    /\ paymentRequired(resolvePaidRouteAccess([req EXCEPT !.demo = undefined],
                                              paymentStatus, env, payment).access)

\* C6: createPaymentMiddleware in mode real, when no pay-to candidate (the
\* option or an environment fallback) is a valid account address, fails with an
\* error and returns no gateway state, in particular no stub state.
ForcedReal ==
    \/ options.mode \in {"real", "REAL"}
    \/ (options.mode = undefined /\ env.X402_MODE \in {"real", "REAL"})

AutoMode ==
    \/ options.mode \in {"auto", "AUTO"}
    \/ (options.mode = undefined /\ env.X402_MODE \in {undefined, "auto", "AUTO"})

StubMode ==
    \/ options.mode \in {"stub", "Stub"}
    \/ (options.mode = undefined /\ env.X402_MODE \in {"stub", "Stub"})

PriorityOrder ==
    << options.payTo, env.X402_PAY_TO, env.X402_RECEIVER_ADDRESS,
       env.DEPLOYER_ADDRESS, env.UPDATER_ADDRESS >>

NoValidPayee == \A i \in 1..5 : PriorityOrder[i] \notin ValidSamples

C6_ForcedRealInvalidPayeeFails ==
    (phase # "init" /\ ForcedReal /\ NoValidPayee) =>
        /\ phase = "crashed"
        /\ thrown # NoError
        /\ payment = NoPayment

C6_Witness ==
    /\ phase = "crashed"
    /\ ForcedReal
    /\ NoValidPayee
    /\ lib = "ok"
    /\ options.payTo = AddrLong
    /\ thrown = MissingPayToMessage

\* C7: createPaymentMiddleware in mode auto (the default when no mode is
\* given), when real construction fails for any reason, does not throw and
\* returns a state with mode stub, usingRealMiddleware false, fallbackFromReal
\* true and a non-empty reason that contains the failure's message.
RealConstructionFails == lib # "ok" \/ NoValidPayee

C8_StubModeNeverTriesReal ==
    (phase # "init" /\ StubMode) =>
        /\ phase = "selected"
        /\ realAttempts = 0
        /\ payment.mode = "stub"
        /\ ~payment.usingRealMiddleware
        /\ ~payment.fallbackFromReal

C8_Witness ==
    /\ phase = "selected"
    /\ StubMode
    /\ realAttempts = 0
    /\ options.payTo = AddrA
    /\ lib = "ok"
    /\ payment.mode = "stub"

\* C9: resolvePayToAddress returns the first candidate, in the order payTo
\* option, X402_PAY_TO, X402_RECEIVER_ADDRESS, DEPLOYER_ADDRESS,
\* UPDATER_ADDRESS, that is 0x followed by exactly 40 hex digits; invalid
\* candidates of higher priority are skipped, and it fails exactly when no
\* candidate is valid.
C9_FirstValidCandidate ==
    phase = "resolved" =>
        /\ resolved.ok <=> (\E i \in 1..5 : PriorityOrder[i] \in ValidSamples)
        /\ resolved.ok =>
              \E i \in 1..5 :
                  /\ PriorityOrder[i] \in ValidSamples
                  /\ \A j \in 1..(i - 1) : PriorityOrder[j] \notin ValidSamples
                  /\ resolved.value = PriorityOrder[i]
        /\ ~resolved.ok => resolved.error = MissingPayToMessage

C9_Witness ==
    /\ phase = "resolved"
    /\ options.payTo = AddrBigX
    /\ env.X402_PAY_TO = AddrShort
    /\ env.X402_RECEIVER_ADDRESS = AddrB
    /\ env.DEPLOYER_ADDRESS = AddrA
    /\ resolved.ok
    /\ resolved.value = AddrB

\* C10: the stub middleware, on a request that matches a paid route: with
\* enforcement on and no proof it responds 402 with the matched rule's price,
\* network and description and does not call next; otherwise it calls next
\* once and does not respond.  Either way the request is tagged paid_stub when
\* proof is present and unpaid_stub when it is not.
C10_StubMiddlewareStep ==
    [][(pc = "middleware" /\ payment.middleware = "stub" /\ PaidRouteRequest(req)) =>
        /\ paymentStatus' = (IF CarriesProof(req) THEN "paid_stub" ELSE "unpaid_stub")
        /\ IF payment.enforceStubPayment /\ ~CarriesProof(req)
           THEN LET rule == routeEntry(payment.paidRoutes, RouteKeyOfRequest(req)).config IN
                /\ res'.status = 402
                /\ res'.body.price = rule.price
                /\ res'.body.network = rule.network
                /\ res'.body.description = rule.description
                /\ nextCalls' = 0
                /\ pc' = "done"
           ELSE /\ nextCalls' = 1
                /\ res' = NoResponse
                /\ pc' = "route"]_vars

C10_Witness ==
    /\ StubGateway
    /\ payment.enforceStubPayment
    /\ PaidRouteRequest(req)
    /\ ~CarriesProof(req)
    /\ pc = "done"
    /\ nextCalls = 0
    /\ res.status = 402
    /\ res.body.description = "Agent trust score query"
    /\ paymentStatus = "unpaid_stub"

\* C11: the stub middleware, on a request that matches no paid route (/health,
\* /discover, a paid path with another method or with a trailing slash), calls
\* next once and never responds, whatever the enforcement setting and the
\* headers are; it sets the tag to free only when no tag was set before and
\* otherwise leaves the existing tag as it is.
C11_UnmatchedPassesFree ==
    [][(pc = "middleware" /\ payment.middleware = "stub" /\ ~PaidRouteRequest(req)) =>
        /\ nextCalls' = 1
        /\ res' = NoResponse
        /\ pc' = "route"
        /\ paymentStatus' = (IF paymentStatus = undefined THEN "free" ELSE paymentStatus)]_vars

C11_Witness ==
    /\ StubGateway
    /\ payment.enforceStubPayment
    /\ req.method = "POST"
    /\ req.path = <<"score", "1">>
    /\ ~CarriesProofHeader(req)
    /\ pc = "route"
    /\ nextCalls = 1
    /\ res = NoResponse
    /\ paymentStatus = "free"

\* the "/"-separated segments of a path that starts with a slash, from the
\* slash at position i on ("/s/" has the segments "s" and "")
RECURSIVE SegmentsFrom(_, _)
SegmentsFrom(chars, i) ==
    LET later == {j \in (i + 1)..Len(chars) : chars[j] = "/"}
        stop  == IF later = {} THEN Len(chars) + 1
                 ELSE CHOOSE j \in later : \A k \in later : j <= k
    IN <<SubSeq(chars, i + 1, stop - 1)>>
       \o (IF stop > Len(chars) THEN <<>> ELSE SegmentsFrom(chars, stop))

IsParamSegment(seg) ==
    /\ Len(seg) >= 2
    /\ seg[1] = ":"
    /\ \A i \in 2..Len(seg) : seg[i] \in NameChars

\* the segments of the pattern and of the path align one to one
SegmentsAlign(routePath, pathname) ==
    LET ps == SegmentsFrom(routePath, 1)
        qs == SegmentsFrom(pathname, 1)
    IN /\ Len(ps) = Len(qs)
       /\ \A i \in 1..Len(ps) :
            IF IsParamSegment(ps[i]) THEN qs[i] # <<>> ELSE qs[i] = ps[i]

RuleFits(key, r) ==
    /\ toUpperCase(key.method) = toUpperCase(r.method)
    /\ SegmentsAlign(key.routePath, r.path)

\* C12: matchPaidRoute returns a rule exactly when some declared rule has the
\* request's upper-cased method and a pattern whose segments align one to one
\* with the path's (a literal segment equal, a :name segment against one
\* non-empty segment), so a path with fewer, extra or trailing segments, a
\* trailing slash or an empty placeholder segment matches nothing; the rule
\* returned is the first declared one that fits.
C12_MatchIsSegmentAlignment ==
    phase = "matched" =>
        /\ (matched # 0) <=> (\E i \in DOMAIN routes : RuleFits(routes[i], probe))
        /\ matched # 0 =>
             /\ RuleFits(routes[matched], probe)
             /\ \A j \in 1..(matched - 1) : ~RuleFits(routes[j], probe)

C12_Witness ==
    /\ phase = "matched"
    /\ Len(routes) = 2
    /\ RuleFits(routes[1], probe)
    /\ RuleFits(routes[2], probe)
    /\ routes[1] # routes[2]
    /\ routes[2].method = "get"
    /\ probe.method = "GET"
    /\ matched = 1

Assessed == phase \in {"assessed", "classified"}

\* C13 (as stated): the confidence of the report is exactly
\* min(1, totalFeedback / threshold) when the threshold is positive, and 1 when
\* the threshold is 0.
C13_ConfidenceIsExactRatio ==
    Assessed =>
        LET total     == ledger.totalFeedback
            threshold == scoringConfig.confidenceThresholdFeedbackCount
        IN IF threshold = 0 THEN report.confidence = ConfidenceScale
           ELSE report.confidence * threshold = ConfidenceScale * (IF total < threshold THEN total ELSE threshold)

\* C13 (amended): when the threshold is positive the confidence is
\* min(1, totalFeedback / threshold) rounded to four decimals (at most half a
\* ten-thousandth away from it); it is 1 for every totalFeedback >= threshold
\* and never decreases when totalFeedback grows; when the threshold is 0 it is
\* 1 for every totalFeedback, 0 included.
C13_ConfidenceIsRoundedRatio ==
    Assessed =>
        LET total     == ledger.totalFeedback
            threshold == scoringConfig.confidenceThresholdFeedbackCount
            exact     == ConfidenceScale * (IF total < threshold THEN total ELSE threshold)
            gap       == report.confidence * threshold - exact
        IN IF threshold = 0 THEN report.confidence = ConfidenceScale
           ELSE /\ 2 * gap <= threshold
                /\ 2 * gap > -threshold
                /\ (total >= threshold => report.confidence = ConfidenceScale)
                /\ \A more \in TotalSamples :
                     more >= total => reportConfidence(more, threshold) >= report.confidence

C13_Witness ==
    /\ Assessed
    /\ ledger.totalFeedback = 1
    /\ scoringConfig.confidenceThresholdFeedbackCount = 3
    /\ report.confidence = 3333

\* C14: negativeRateBps is (totalFeedback - positiveFeedback) * 10000 /
\* totalFeedback rounded to the nearest integer (halves upwards) when
\* totalFeedback > 0, and 0 when totalFeedback = 0: the zero-feedback record
\* is assessed without a division by zero.
C14_NegativeRateRounded ==
    Assessed =>
        LET total    == ledger.totalFeedback
            negative == total - ledger.positiveFeedback
            gap      == report.negativeRateBps * total - negative * BpsScale
        IN IF total = 0 THEN report.negativeRateBps = 0
           ELSE 2 * gap <= total /\ 2 * gap > -total

C14_Witness ==
    /\ Assessed
    /\ ledger.totalFeedback = 3
    /\ ledger.positiveFeedback = 1
    /\ report.negativeRateBps = 6667

\* C15: for every record of unsigned integers, with no relation assumed
\* between positiveFeedback and totalFeedback, and every configuration, the
\* report has 0 <= confidence <= 1, 0 <= negativeRateBps <= 10000 and a
\* recentTrend among insufficient_data, stable, caution and stale.
C15_ReportInRange ==
    Assessed =>
        /\ 0 <= report.confidence /\ report.confidence <= ConfidenceScale
        /\ 0 <= report.negativeRateBps /\ report.negativeRateBps <= BpsScale
        /\ report.recentTrend \in {"insufficient_data", "stable", "caution", "stale"}

FactorRank(f) ==
    CASE f = "low_feedback_volume" -> 1
      [] f = "high_negative_feedback_ratio" -> 2
      [] f = "low_trust_score" -> 3
      [] OTHER -> 0

Has(factors, f) == \E i \in DOMAIN factors : factors[i] = f

\* C16: flagged is (totalFeedback > 0 and negativeRateBps above the flag
\* threshold); riskFactors holds low_feedback_volume exactly when totalFeedback
\* is below the confidence threshold, high_negative_feedback_ratio exactly when
\* flagged and low_trust_score exactly when score < 500, in that order and
\* without duplicates.
C16_FlagAndFactors ==
    Assessed =>
        LET f == report.riskFactors IN
        /\ report.flagged <=> (/\ ledger.totalFeedback > 0
                               /\ report.negativeRateBps > scoringConfig.negativeFlagThresholdBps)
        /\ Has(f, "low_feedback_volume") <=>
              ledger.totalFeedback < scoringConfig.confidenceThresholdFeedbackCount
        /\ Has(f, "high_negative_feedback_ratio") <=> report.flagged
        /\ Has(f, "low_trust_score") <=> ledger.score < 500
        /\ \A i \in DOMAIN f : FactorRank(f[i]) # 0
        /\ \A i, j \in DOMAIN f : i < j => FactorRank(f[i]) < FactorRank(f[j])

C16_Witness ==
    /\ Assessed
    /\ report.flagged
    /\ report.riskFactors = <<"low_feedback_volume", "high_negative_feedback_ratio", "low_trust_score">>
    /\ ledger.score = 499

\* C17: with ageSeconds = max(0, now - lastUpdated), recentTrend is stale when
\* ageSeconds exceeds twice the poll interval in seconds, whatever the risk
\* factors are; otherwise it is stable when riskFactors is empty and caution
\* when it is not.  A lastUpdated in the future is never stale, an age of
\* exactly twice the poll interval is not stale, and insufficient_data is
\* never returned.
C17_TrendByAge ==
    Assessed =>
        LET age   == IF clock > ledger.lastUpdated THEN clock - ledger.lastUpdated ELSE 0
            stale == age * 1000 > 2 * pollMs
        IN /\ report.recentTrend =
                (IF stale THEN "stale"
                 ELSE IF report.riskFactors = <<>> THEN "stable" ELSE "caution")
           /\ ledger.lastUpdated > clock => report.recentTrend # "stale"
           /\ age * 1000 = 2 * pollMs => report.recentTrend # "stale"
           /\ report.recentTrend # "insufficient_data"

C17_Witness ==
    /\ Assessed
    /\ clock - ledger.lastUpdated = 1800
    /\ pollMs = 900000
    /\ report.riskFactors # <<>>
    /\ report.recentTrend = "caution"

\* C18: resolveVerdict gives TRUSTED exactly for a score above 700, CAUTION
\* exactly for 400 <= score <= 700, DANGEROUS exactly for a score below 400 and
\* UNKNOWN for a score that is not a number; 700 is CAUTION, 701 TRUSTED,
\* 400 CAUTION and 399 DANGEROUS.
C18_VerdictTiers ==
    phase = "classified" =>
        LET score == verdict.score
            v     == verdict.verdict
            isNum == score # NotANumber
        IN /\ (v = "TRUSTED") <=> (isNum /\ score > 700)
           /\ (v = "CAUTION") <=> (isNum /\ 400 <= score /\ score <= 700)
           /\ (v = "DANGEROUS") <=> (isNum /\ score < 400)
           /\ (v = "UNKNOWN") <=> ~isNum
           /\ score = 700 => v = "CAUTION"
           /\ score = 701 => v = "TRUSTED"
           /\ score = 400 => v = "CAUTION"
           /\ score = 399 => v = "DANGEROUS"

C18_Witness ==
    /\ phase = "classified"
    /\ verdict = [score |-> 700, verdict |-> "CAUTION"]

\* the demo tier answered from a record the ledger returned
DemoOfRecord == pc = "done" /\ readOutcome = "returned" /\ access.allowDemoResponse

FullOnlyFields ==
    {"confidence", "totalFeedback", "positiveFeedback", "riskFactors",
     "negativeRateBps", "recentTrend", "lastUpdated"}

VerdictOfScore(score) ==
    IF score > 700 THEN "TRUSTED" ELSE IF score >= 400 THEN "CAUTION" ELSE "DANGEROUS"

BandOfTotal(total) ==
    IF total >= 50 THEN "high" ELSE IF total > 0 THEN "low" ELSE "none"

\* C19 (as stated): every demo-tier response of /score and /report for an
\* existing record is marked demo: true, carries score, verdict, confidence
\* band, flagged and a note, and none of the full-payload fields.
C19_DemoCarriesFlagged ==
    DemoOfRecord =>
        /\ res.status = 200
        /\ {"demo", "score", "verdict", "confidenceBand", "flagged", "note"} \subseteq DOMAIN res.body
        /\ res.body.demo
        /\ DOMAIN res.body \cap FullOnlyFields = {}

\* C19 (amended): every demo-tier response of /score and /report for an
\* existing record is marked demo: true and carries the score, the verdict of
\* that score, the confidence band of the record's totalFeedback (high from 50,
\* low between 1 and 49, none at 0) and a note; the /report response also
\* carries flagged, the /score response does not; neither carries confidence,
\* totalFeedback, positiveFeedback, riskFactors, negativeRateBps, recentTrend
\* or lastUpdated.
C19_DemoPayloadReduced ==
    DemoOfRecord =>
        /\ res.status = 200
        /\ {"demo", "score", "verdict", "confidenceBand", "note"} \subseteq DOMAIN res.body
        /\ res.body.demo
        /\ res.body.score = ledger.score
        /\ res.body.verdict = VerdictOfScore(ledger.score)
        /\ res.body.confidenceBand = BandOfTotal(ledger.totalFeedback)
        /\ ("flagged" \in DOMAIN res.body) <=> (handler = "report")
        /\ handler = "report" => res.body.flagged = report.flagged
        /\ DOMAIN res.body \cap FullOnlyFields = {}

C19_Witness ==
    /\ DemoOfRecord
    /\ handler = "score"
    /\ ledger.totalFeedback = 10
    /\ res.body.confidenceBand = "low"
    /\ res.body.verdict = "CAUTION"
    /\ "flagged" \notin DOMAIN res.body

\* C20 (as stated): every 402 a paid-route request receives in stub mode,
\* whichever component issues it, has a body with route, price, network and
\* details, the details being the resolver's reason string.
C20_Every402HasDetails ==
    (StubGateway /\ PaidRouteRequest(req) /\ res.status = 402) =>
        /\ {"route", "price", "network", "details"} \subseteq DOMAIN res.body
        /\ res.body.details = PaymentReason

\* C20 (amended): every 402 a paid-route request receives in stub mode has a
\* body with route, price and network; the one the route handler issues also
\* has details, the resolver's reason string; the one the stub middleware
\* issues (next was not called) has the rule's description and no details.
C20_ChallengeBodies ==
    (StubGateway /\ PaidRouteRequest(req) /\ res.status = 402) =>
        /\ {"route", "price", "network"} \subseteq DOMAIN res.body
        /\ res.body.route = RouteKeyOfRequest(req)
        /\ IF nextCalls = 0
           THEN /\ "description" \in DOMAIN res.body
                /\ "details" \notin DOMAIN res.body
                /\ ~Resolved
           ELSE /\ "details" \in DOMAIN res.body
                /\ res.body.details = access.paymentReason
                /\ res.body.details = PaymentReason

C20_Witness ==
    /\ StubGateway
    /\ req.method = "GET"
    /\ req.path = <<"report", "42">>
    /\ res.status = 402
    /\ nextCalls = 0
    /\ "details" \notin DOMAIN res.body
    /\ res.body.description = "Detailed agent trust report"

\* C21: when the ledger read reverts, a request resolved to the demo tier gets
\* a successful demo payload with score null, verdict UNKNOWN and confidence
\* band none, and a request resolved to the full tier gets 404 not-found;
\* neither gets a 500.
C21_RevertDegradesByTier ==
    (pc = "done" /\ readOutcome = "reverted") =>
        /\ res.status # 500
        /\ access.allowDemoResponse =>
             /\ res.status = 200
             /\ res.body.demo
             /\ res.body.score = NotANumber
             /\ res.body.verdict = "UNKNOWN"
             /\ res.body.confidenceBand = "none"
        /\ access.allowFullResponse =>
             /\ res.status = 404
             /\ res.body.agentId = agentIdOf(req)

C21_Witness ==
    /\ pc = "done"
    /\ readOutcome = "reverted"
    /\ access = DemoAccess
    /\ handler = "report"
    /\ res.status = 200
    /\ res.body.score = NotANumber
    /\ res.body.flagged = FALSE

\* the four fields of the gateway state createPaymentMiddleware returns for
\* the application's options
GatewayAtConstruction ==
    LET made == createPaymentMiddleware(appOptions(env), env, lib).state
    IN [mode |-> made.mode, usingRealMiddleware |-> made.usingRealMiddleware,
        fallbackFromReal |-> made.fallbackFromReal, reason |-> made.reason]

GatewayNow ==
    [mode |-> payment.mode, usingRealMiddleware |-> payment.usingRealMiddleware,
     fallbackFromReal |-> payment.fallbackFromReal, reason |-> payment.reason]

IsFullTier(d) == d.allowFullResponse /\ ~d.allowDemoResponse /\ ~paymentRequired(d)

IsDemoTier(d) == ~d.allowFullResponse /\ d.allowDemoResponse /\ ~paymentRequired(d)

IsChallengeTier(d) ==
    /\ ~d.allowFullResponse /\ ~d.allowDemoResponse
    /\ paymentRequired(d)
    /\ d.paymentReason # ""

\* C23: for every gateway state, request headers, demo query value and
\* configuration flags, the decision resolvePaidRouteAccess returns to a
\* handler is exactly one of the three tiers: full (allowFullResponse only),
\* demo (allowDemoResponse only) or challenge (paymentRequired with a non-empty
\* reason, both allow flags false); never two at once, never none.
C23_DecisionIsOneTier ==
    [][(/\ pc = "route"
        /\ expressRoute(req) \in {"score", "report"}
        /\ validAgentId(agentIdOf(req))
        /\ pc' # "route") =>
          Cardinality({t \in {"full", "demo", "challenge"} :
                          \/ t = "full" /\ IsFullTier(access')
                          \/ t = "demo" /\ IsDemoTier(access')
                          \/ t = "challenge" /\ IsChallengeTier(access')}) = 1]_vars

C23_Witness ==
    /\ pc = "done"
    /\ IsChallengeTier(access)
    /\ payment.fallbackFromReal
    /\ req.demo = "Yes"
    /\ ~DemoAllowed
    /\ res.status = 402

\* the handler has resolved the access and has not yet tagged a full response
AfterFirstResolve ==
    \/ pc = "ledger"
    \/ /\ pc = "done"
       /\ nextCalls = 1
       /\ expressRoute(req) \in {"score", "report"}
       /\ validAgentId(agentIdOf(req))
       /\ res.status \in {402, 503}

ScriptPassed == script.at = "exited" /\ script.printed = "PASS: paid x402 flow completed successfully."

ScriptFailed == script.at = "exited" /\ script.printed # "PASS: paid x402 flow completed successfully."

\* C25: the paid test script makes the paying request only after the
\* unauthenticated preflight request was answered 402; it prints PASS only if
\* the paid response was 2xx and carried an X-PAYMENT-RESPONSE header; a run
\* that ended after another preflight status, a failed paid response or a
\* missing header printed FAIL and exited with a non-zero code.
C25_PaidTestDiscipline ==
    /\ script.paidRequests > 0 => script.preflightStatus = 402
    /\ ScriptPassed =>
          /\ script.preflightStatus = 402
          /\ script.paidRequests = 1
          /\ script.paidStatus >= 200 /\ script.paidStatus <= 299
          /\ script.paymentResponseHeader \notin {null, ""}
          /\ script.exitCode = 0
    /\ (/\ script.at = "exited"
        /\ \/ script.preflightStatus # 402
           \/ script.paidStatus < 200 \/ script.paidStatus > 299
           \/ script.paymentResponseHeader \in {null, ""}) =>
          /\ ScriptFailed
          /\ script.exitCode # 0

C25_Witness ==
    /\ ScriptPassed
    /\ script.paidStatus = 204
    /\ script.privateKey = "ab12"
    /\ script.targetUrl = undefined

\* C26: a request the handler resolves to the challenge tier is answered 402
\* before any ledger access: the read is never started, no record is parsed and
\* the classifier is not run, also when the ledger reader is not configured
\* (the 402 comes before the 503).
C26_ChallengeBeforeLedger ==
    (pc \in {"ledger", "done"} /\ IsChallengeTier(access)) =>
        /\ pc = "done"
        /\ res.status = 402
        /\ res.body.details = PaymentReason
        /\ readOutcome = "none"
        /\ ledger = NoRecord
        /\ report = NoReport

C26_Witness ==
    /\ pc = "done"
    /\ IsChallengeTier(access)
    /\ ~trustScoreReader
    /\ handler = "none"
    /\ expressRoute(req) = "report"
    /\ res.status = 402

\* C27: for the same record and scoring configuration, the confidence of the
\* full /score response equals the confidence of the full /report response,
\* for every totalFeedback and every threshold, the threshold 0 included
\* (where both are 1).
C27_ScoreConfidenceEqualsReport ==
    (/\ pc = "done"
     /\ handler = "score"
     /\ readOutcome = "returned"
     /\ res.status = 200
     /\ ~access.allowDemoResponse) =>
        LET ofReport == buildRiskReport(ledger, scoringConfig, pollMs, clock).confidence IN
        /\ res.body.confidence = ofReport
        /\ scoringConfig.confidenceThresholdFeedbackCount = 0 => res.body.confidence = ConfidenceScale

\* C28: under a stub gateway, a fully handled request to a paid route is
\* tagged paid_stub only if it carried payment proof; a request without proof
\* ends tagged unpaid_stub or demo_free, never paid_stub, also when it was
\* served the full payload because payment is not enforced.
C28_PaidStubOnlyWithProof ==
    (StubGateway /\ PaidRouteRequest(req) /\ pc = "done") =>
        /\ paymentStatus = "paid_stub" => CarriesProof(req)
        /\ ~CarriesProof(req) => paymentStatus \in {"unpaid_stub", "demo_free"}

\* C29: when the ledger read returns a record with exists = false, the
\* handlers treat it as record-not-found: a full-tier request gets the
\* not-found result, not a full payload built from the empty record, and a
\* demo-tier request gets the null-score no-history payload.
C29_AbsentRecordIsNotFound ==
    (pc = "done" /\ readOutcome = "returned" /\ ~ledger.exists) =>
        IF access.allowDemoResponse
        THEN /\ res.status = 200
             /\ res.body.score = NotANumber
             /\ res.body.verdict = "UNKNOWN"
        ELSE /\ res.status = 404
             /\ "score" \notin DOMAIN res.body

\* a payment header, a proof header or a paid status header, as the claim
\* lists them
ListedProof(r) ==
    \E i \in DOMAIN r.headers :
        \/ toLowerCase(r.headers[i].name) \in {"x-payment", "x402-payment", "x-payment-proof", "x402-proof"}
        \/ /\ toLowerCase(r.headers[i].name) = "x-payment-status"
           /\ r.headers[i].value \in {"paid", "PAID", "Paid"}

\* the stub middleware has just judged the proof of a paid-route request
StubJudged ==
    /\ StubGateway
    /\ PaidRouteRequest(req)
    /\ pc = "route" \/ (pc = "done" /\ nextCalls = 0)

\* C30 (as stated): the proof predicate is true exactly when the request
\* carries, under any casing of the name, x-payment, x402-payment,
\* x-payment-proof, x402-proof, or x-payment-status with the value paid in any
\* casing; no other header makes a request count as paid.
C30_ProofIffListedHeader ==
    StubJudged => ((paymentStatus = "paid_stub") <=> ListedProof(req))

\* C30 (amended): the proof predicate, the same in the stub middleware and in
\* the resolver, is true exactly when the request carries, under any casing of
\* the name, x-payment, x402-payment, x-payment-proof, x402-proof or
\* authorization with a non-empty value, or x-payment-status with the value
\* paid in any casing; no other header (payment, accept) and no other status
\* value makes a request count as paid.
C30_ProofIffNonEmptyOrAuthorization ==
    /\ StubJudged => ((paymentStatus = "paid_stub") <=> CarriesProof(req))
    /\ (StubGateway /\ PaidRouteRequest(req) /\ pc = "ledger") =>
          /\ CarriesProof(req) => (access = FullAccess /\ paymentStatus = "paid_stub")
          /\ ~CarriesProof(req) => paymentStatus # "paid_stub"

C30_Witness ==
    /\ StubJudged
    /\ pc = "route"
    /\ paymentStatus = "paid_stub"
    /\ ~ListedProof(req)
    /\ \E i \in DOMAIN req.headers : req.headers[i].name = "Authorization"

====
